---- MODULE Spec2Model ----
(***************************************************************************)
(* Range derivation of the editable document engine.                       *)
(*                                                                         *)
(* The module models an editor session: a keyed node tree, the operation   *)
(* Executor that mutates it, createRangefromOp                             *)
(* (packages/selection/src/utils/op.ts) that derives the Range following   *)
(* an operation, and the Selection that the session replaces with it.      *)
(* The drill-down loop of createRangefromOp is modelled one iteration per  *)
(* step, everything else in it as one step.                                *)
(* A second part models the nested PopperContent components of            *)
(* packages/plugins/ui/src/popper.tsx and their shared positionUpdateFns.  *)
(***************************************************************************)
EXTENDS Integers, Sequences, FiniteSets, TLC

\* ------------------------------------------------------------------ bounds
\* Longest text payload of a Text node, of an inserted string and of a
\* composed string.
MaxLen == 2
\* Largest number of nodes in the value of an InsertNode operation.
MaxValueSize == 3
\* Largest key the session hands out (keys are never reused).
MaxKey == 10
\* Number of operations in a session.
MaxOps == 1
\* Number of PopperContent components.
MaxContents == 4

\* ------------------------------------------------------------- node model
Chars == {"a"}

\* The null / undefined reference.
Null == 0

\* The key of the document root.
RootKey == 1

RECURSIVE StringsOfLen(_)
StringsOfLen(n) ==
    IF n = 0 THEN {<<>>}
    ELSE {Append(s, c) : s \in StringsOfLen(n - 1), c \in Chars}

Strings == UNION {StringsOfLen(n) : n \in 0..MaxLen}

\* The Composition of a Text node; active = FALSE is "no composition".
NoComposition == [active |-> FALSE, text |-> <<>>, offset |-> 0]

Composition(t, o) == [active |-> TRUE, text |-> t, offset |-> o]

Compositions ==
    {Composition(t, o) : t \in Strings \ {<<>>}, o \in 0..MaxLen}

\* A Text node and an Element node, as stored under their key.
TextNode(s) ==
    [kind |-> "text", text |-> s, composition |-> NoComposition,
     children |-> <<>>]

ElementNode(cs) ==
    [kind |-> "element", text |-> <<>>, composition |-> NoComposition,
     children |-> cs]

\* ------------------------------------------------- serializable node values
TextValue(s) == [kind |-> "text", text |-> s, children |-> <<>>]

ElementValue(vs) == [kind |-> "element", text |-> <<>>, children |-> vs]

\* A value record that has neither a text nor a children field.
EmptyValue == [kind |-> "none", text |-> <<>>, children |-> <<>>]

RECURSIVE Size(_)
RECURSIVE SizeAll(_)
Size(v) == IF v.kind = "element" THEN 1 + SizeAll(v.children) ELSE 1
SizeAll(vs) == IF vs = <<>> THEN 0 ELSE Size(Head(vs)) + SizeAll(Tail(vs))

\* The texts of the Text values: the empty and the longest strings.
ValueTexts == {<<>>} \cup StringsOfLen(MaxLen)

\* The values of at most n nodes, and the sequences of values of at most n
\* nodes in total.
RECURSIVE ValuesUpTo(_)
RECURSIVE ForestsUpTo(_)
ValuesUpTo(n) ==
    IF n = 0 THEN {}
    ELSE {TextValue(s) : s \in ValueTexts}
         \cup {ElementValue(vs) : vs \in ForestsUpTo(n - 1)}
ForestsUpTo(n) ==
    {<<>>} \cup
    UNION {{<<v>> \o f : f \in ForestsUpTo(n - Size(v))} : v \in ValuesUpTo(n)}

Values == ValuesUpTo(MaxValueSize) \cup {EmptyValue}

RECURSIVE Depth(_)
RECURSIVE DepthAll(_)
\* The depth of a value: the number of edges on its longest root-to-leaf path.
Depth(v) ==
    IF v.kind = "element" /\ v.children # <<>>
    THEN 1 + DepthAll(v.children) ELSE 0
DepthAll(vs) ==
    IF vs = <<>> THEN 0
    ELSE LET d == Depth(Head(vs))
             r == DepthAll(Tail(vs))
         IN IF d > r THEN d ELSE r

\* --------------------------------------------------------------- createNode
EmptyHeap == [k \in {} |-> TextNode(<<>>)]

\* createNode(value) with the next free key k: the key of the node built
\* (Null when the value builds nothing), the nodes built, keyed in
\* pre-order from k on, and the next free key afterwards.
RECURSIVE createNode(_, _)
RECURSIVE createNodes(_, _)
createNode(v, k) ==
    IF v.kind = "text"
    THEN [root |-> k, heap |-> (k :> TextNode(v.text)), next |-> k + 1]
    ELSE IF v.kind = "element"
    THEN LET sub == createNodes(v.children, k + 1)
         IN [root |-> k,
             heap |-> (k :> ElementNode(sub.roots)) @@ sub.heap,
             next |-> sub.next]
    ELSE [root |-> Null, heap |-> EmptyHeap, next |-> k]
createNodes(vs, k) ==
    IF vs = <<>> THEN [roots |-> <<>>, heap |-> EmptyHeap, next |-> k]
    ELSE LET first == createNode(Head(vs), k)
             rest == createNodes(Tail(vs), first.next)
         IN [roots |-> <<first.root>> \o rest.roots,
             heap |-> first.heap @@ rest.heap,
             next |-> rest.next]

\* The documents a session starts with: a root holding one paragraph with
\* one text.
InitialValue(s) == ElementValue(<<ElementValue(<<TextValue(s)>>)>>)

\* -------------------------------------------------------------------- Range
Range(anchorKey, anchorOffset, focusKey, focusOffset) ==
    [anchorKey |-> anchorKey, anchorOffset |-> anchorOffset,
     focusKey |-> focusKey, focusOffset |-> focusOffset]

\* new Range(key, offset): the focus defaults to the anchor.
CollapsedRange(key, offset) == Range(key, offset, key, offset)

IsCollapsed(r) ==
    r.anchorKey = r.focusKey /\ r.anchorOffset = r.focusOffset

\* What a call of createRangefromOp ends with: a Range, undefined, or a
\* thrown error.
ReturnRange(r) == [kind |-> "range", range |-> r, key |-> Null]
ReturnUndefined ==
    [kind |-> "undefined", range |-> CollapsedRange(Null, 0), key |-> Null]
ThrowTypeError ==
    [kind |-> "TypeError", range |-> CollapsedRange(Null, 0), key |-> Null]
ThrowNodeNotFound(k) ==
    [kind |-> "NodeNotFound", range |-> CollapsedRange(Null, 0), key |-> k]
NoResult == [kind |-> "none", range |-> CollapsedRange(Null, 0), key |-> Null]

\* --------------------------------------------------------------- operations
OP_INSERT_TEXT == "insertText"
OP_DELETE_TEXT == "deleteText"
OP_INSERT_NODE == "insertNode"
OP_UPDATE_DATA == "updateData"
OP_UPDATE_FORMAT == "updateFormat"

\* An operation record together with the node reference it carries.  text is
\* the value of an InsertText, value the value of an InsertNode, data the
\* composition an UpdateData sets.
Op(type, key, offset, text, value, length, data, node) ==
    [type |-> type, key |-> key, offset |-> offset, text |-> text,
     value |-> value, length |-> length, data |-> data, node |-> node]

NoOp == Op("none", Null, 0, <<>>, EmptyValue, 0, NoComposition, Null)

\* The PopperContent components of the page: RootContent is the outermost
\* one, the others are rendered inside a mounted content.
Contents == 1..MaxContents

RootContent == 1

VARIABLES
    nodes,      \* the document tree: key -> node, for every node in the tree
    nextKey,    \* the next key createNode hands out
    selection,  \* the Selection: the Range shown to the rendering layer
    op,         \* the operation being processed
    applied,    \* whether the Executor applied op to the tree
    opCount,    \* the number of operations submitted so far
    pc,         \* "idle", "applied", "drill" or "done"
    result,     \* what createRangefromOp ended with
    created,    \* createRangefromOp: the nodes its createNode call built
    child,      \* createRangefromOp: local child
    key,        \* createRangefromOp: local key
    offset,     \* createRangefromOp: local offset
    visited,    \* the number of nodes the drill-down has looked at
    mounted,            \* PopperContent: which contents are mounted
    parentContent,      \* PopperContent: the content each one is nested in
    isPlaced,           \* PopperContent: x !== null && y !== null
    positionUpdateFns,  \* the Set of update functions (one per content)
    scheduled           \* the functions given to requestAnimationFrame

vars ==
    <<nodes, nextKey, selection, op, applied, opCount, pc, result, created,
      child, key, offset, visited, mounted, parentContent, isPlaced,
      positionUpdateFns, scheduled>>

editor ==
    <<nodes, nextKey, selection, op, applied, opCount, pc, result, created,
      child, key, offset, visited>>

popper == <<mounted, parentContent, isPlaced, positionUpdateFns, scheduled>>

locals == <<created, child, key, offset, visited>>

Offsets == 0..MaxLen

IsText(heap, k) == k \in DOMAIN heap /\ heap[k].kind = "text"

IsElement(heap, k) == k \in DOMAIN heap /\ heap[k].kind = "element"

\* The reference to the node with key k in the tree, Null when there is none.
GetNode(k) == IF k \in DOMAIN nodes THEN k ELSE Null

\* Keys an operation may carry: every key of the tree and one that is not.
OpKeys == DOMAIN nodes \cup {nextKey}

Init ==
    /\ \E s \in Strings :
         /\ nodes = createNode(InitialValue(s), RootKey).heap
         /\ nextKey = createNode(InitialValue(s), RootKey).next
    /\ opCount = 0
    /\ selection = CollapsedRange(RootKey, 0)
    /\ op = NoOp
    /\ applied = FALSE
    /\ pc = "idle"
    /\ result = NoResult
    /\ created = EmptyHeap
    /\ child = Null
    /\ key = Null
    /\ offset = 0
    /\ visited = 0
    /\ mounted = [c \in Contents |-> FALSE]
    /\ parentContent = [c \in Contents |-> Null]
    /\ isPlaced = [c \in Contents |-> FALSE]
    /\ positionUpdateFns = {}
    /\ scheduled = {}

\* ----------------------------------------------------------------- Executor
InsertChars(s, off, v) == SubSeq(s, 1, off) \o v \o SubSeq(s, off + 1, Len(s))

DeleteChars(s, off, n) == SubSeq(s, 1, off) \o SubSeq(s, off + n + 1, Len(s))

InsertChild(cs, off, k) ==
    SubSeq(cs, 1, off) \o <<k>> \o SubSeq(cs, off + 1, Len(cs))

\* Every Executor step leaves createRangefromOp to run on the operation next.
Submit(o, ok) ==
    /\ opCount' = opCount + 1
    /\ op' = o
    /\ applied' = ok
    /\ pc' = "applied"
    /\ UNCHANGED <<selection, result, locals, popper>>

\* InsertText: splices s into the text of k at off.  No InsertText is issued
\* on a Text node whose composition is active.
InsertText(k, off, s) ==
    LET ok == IsText(nodes, k) /\ off <= Len(nodes[k].text)
    IN /\ pc = "idle"
       /\ IsText(nodes, k) => ~nodes[k].composition.active
       /\ ok => Len(nodes[k].text) + Len(s) <= MaxLen
       /\ nodes' = IF ok
                   THEN [nodes EXCEPT ![k].text = InsertChars(@, off, s)]
                   ELSE nodes
       /\ UNCHANGED nextKey
       /\ Submit(Op(OP_INSERT_TEXT, k, off, s, EmptyValue, 0, NoComposition,
                    GetNode(k)), ok)

\* DeleteText: removes n characters of the text of k from off on.
DeleteText(k, off, n) ==
    LET ok == IsText(nodes, k) /\ off + n <= Len(nodes[k].text)
    IN /\ pc = "idle"
       /\ IsText(nodes, k) => ~nodes[k].composition.active
       /\ nodes' = IF ok
                   THEN [nodes EXCEPT ![k].text = DeleteChars(@, off, n)]
                   ELSE nodes
       /\ UNCHANGED nextKey
       /\ Submit(Op(OP_DELETE_TEXT, k, off, <<>>, EmptyValue, n,
                    NoComposition, GetNode(k)), ok)

\* InsertNode: builds createNode(v) and inserts it as child off of k.
InsertNode(k, off, v) ==
    LET built == createNode(v, nextKey)
        ok == /\ IsElement(nodes, k)
              /\ off <= Len(nodes[k].children)
              /\ built.root # Null
    IN /\ pc = "idle"
       /\ nextKey + 2 * Size(v) - 1 <= MaxKey
       /\ nodes' = IF ok
                   THEN [nodes EXCEPT
                           ![k].children = InsertChild(@, off, built.root)]
                        @@ built.heap
                   ELSE nodes
       /\ nextKey' = IF ok THEN built.next ELSE nextKey
       /\ Submit(Op(OP_INSERT_NODE, k, off, <<>>, v, 0, NoComposition,
                    GetNode(k)), ok)

\* UpdateData: merges data into the node's data; on a Text node it sets or
\* clears the composition c.  One composition is in progress at a time, and
\* it is anchored inside the text.
UpdateData(k, off, c) ==
    LET ok == k \in DOMAIN nodes
    IN /\ pc = "idle"
       /\ c.active =>
            /\ IsText(nodes, k)
            /\ c.offset <= Len(nodes[k].text)
            /\ \A j \in DOMAIN nodes \ {k} : ~nodes[j].composition.active
       /\ nodes' = IF IsText(nodes, k)
                   THEN [nodes EXCEPT ![k].composition = c]
                   ELSE nodes
       /\ UNCHANGED nextKey
       /\ Submit(Op(OP_UPDATE_DATA, k, off, <<>>, EmptyValue, 0, c,
                    GetNode(k)), ok)

\* UpdateFormat: merges formatting over the whole text of k.  Formatting
\* records are not read by the range derivation and are not kept here.
UpdateFormat(k, off) ==
    LET ok == IsText(nodes, k)
    IN /\ pc = "idle"
       /\ UNCHANGED <<nodes, nextKey>>
       /\ Submit(Op(OP_UPDATE_FORMAT, k, off, <<>>, EmptyValue, 0,
                    NoComposition, GetNode(k)), ok)

\* -------------------------------------------------------- createRangefromOp
\* The node interface: a node reference is the node's key.
getKey(node) == node

getText(heap, node) == heap[node].text

getComposition(heap, node) == heap[node].composition

getChildrenSize(heap, node) == Len(heap[node].children)

\* Element.last(): the last child, Null when there is none.
last(heap, node) ==
    IF heap[node].children = <<>> THEN Null
    ELSE heap[node].children[Len(heap[node].children)]

\* case OP_UPDATE_FORMAT, and the return after the switch when it breaks.
UpdateFormatRangeCollapsed(heap, o) ==
    IF ~IsText(heap, o.node)
    THEN ReturnRange(CollapsedRange(getKey(o.node), o.offset))
    ELSE ReturnRange(CollapsedRange(getKey(o.node),
                                    Len(getText(heap, o.node))))

UpdateFormatRangeReject(heap, o) ==
    IF ~IsText(heap, o.node)
    THEN ReturnUndefined
    ELSE ReturnRange(Range(getKey(o.node), 0, getKey(o.node),
                           Len(getText(heap, o.node))))

UpdateFormatRange(heap, o) ==
    IF ~IsText(heap, o.node)
    THEN ReturnRange(CollapsedRange(getKey(o.node), o.offset))
    ELSE ReturnRange(Range(getKey(o.node), 0, getKey(o.node),
                           Len(getText(heap, o.node))))

\* case OP_UPDATE_DATA, and the return after the switch when it breaks.
UpdateDataRangeFallThrough(heap, o) ==
    IF IsText(heap, o.node)
    THEN LET composition == getComposition(heap, o.node)
         IN IF composition.active
            THEN ReturnRange(CollapsedRange(
                     getKey(o.node),
                     composition.offset + Len(composition.text)))
            ELSE ReturnRange(CollapsedRange(getKey(o.node), o.offset))
    ELSE ReturnRange(CollapsedRange(getKey(o.node), o.offset))

UpdateDataRangeOpOffset(heap, o) ==
    IF IsText(heap, o.node)
    THEN LET composition == getComposition(heap, o.node)
         IN IF composition.active
            THEN ReturnRange(CollapsedRange(
                     getKey(o.node), o.offset + Len(composition.text)))
            ELSE ReturnUndefined
    ELSE ReturnRange(CollapsedRange(getKey(o.node), o.offset))

UpdateDataRange(heap, o) ==
    IF IsText(heap, o.node)
    THEN LET composition == getComposition(heap, o.node)
         IN IF composition.active
            THEN ReturnRange(CollapsedRange(
                     getKey(o.node),
                     composition.offset + Len(composition.text)))
            ELSE ReturnUndefined
    ELSE ReturnRange(CollapsedRange(getKey(o.node), o.offset))

\* case OP_INSERT_TEXT.
InsertTextRangeAtOffset(o) ==
    ReturnRange(CollapsedRange(getKey(o.node), o.offset))

InsertTextRange(o) ==
    ReturnRange(CollapsedRange(getKey(o.node), o.offset + Len(o.text)))

\* case OP_DELETE_TEXT.
DeleteTextRangePastDeleted(o) ==
    ReturnRange(CollapsedRange(getKey(o.node), o.offset + o.length))

DeleteTextRange(o) ==
    ReturnRange(CollapsedRange(getKey(o.node), o.offset))

\* createRange of case OP_INSERT_NODE: the caret at the end of textNode.
createRangeAtStart(heap, textNode) ==
    CollapsedRange(getKey(textNode), 0)

createRange(heap, textNode) ==
    CollapsedRange(getKey(textNode), Len(getText(heap, textNode)))

\* One evaluation of the while loop's body, from the locals child = c,
\* key = k, offset = off: the locals afterwards, whether a node was looked
\* at beyond c, and the Range returned (NoResult: the loop goes round again).
WhileBodyAssignFirst(heap, c, k, off) ==
    LET l == last(heap, c)
        k2 == getKey(c)
        off2 == getChildrenSize(heap, c)
    IN IF l = Null
       THEN [child |-> c, key |-> k2, offset |-> off2, looked |-> 0,
             result |-> ReturnRange(CollapsedRange(k2, off2))]
       ELSE IF IsText(heap, l)
       THEN [child |-> c, key |-> k2, offset |-> off2, looked |-> 1,
             result |-> ReturnRange(createRange(heap, l))]
       ELSE [child |-> l, key |-> k2, offset |-> off2, looked |-> 1,
             result |-> IF l # Null /\ IsElement(heap, l) THEN NoResult
                        ELSE ReturnRange(CollapsedRange(k2, off2))]

WhileBodyNoDescent(heap, c, k, off) ==
    LET l == last(heap, c)
        k2 == getKey(c)
        off2 == getChildrenSize(heap, c)
    IN IF l = Null
       THEN [child |-> c, key |-> k, offset |-> off, looked |-> 0,
             result |-> ReturnRange(CollapsedRange(k, off))]
       ELSE IF IsText(heap, l)
       THEN [child |-> c, key |-> k2, offset |-> off2, looked |-> 1,
             result |-> ReturnRange(createRange(heap, l))]
       ELSE [child |-> c, key |-> k2, offset |-> off2, looked |-> 1,
             result |-> IF c # Null /\ IsElement(heap, c) THEN NoResult
                        ELSE ReturnRange(CollapsedRange(k2, off2))]

WhileBody(heap, c, k, off) ==
    LET l == last(heap, c)
        k2 == getKey(c)
        off2 == getChildrenSize(heap, c)
    IN IF l = Null
       THEN [child |-> c, key |-> k, offset |-> off, looked |-> 0,
             result |-> ReturnRange(CollapsedRange(k, off))]
       ELSE IF IsText(heap, l)
       THEN [child |-> c, key |-> k2, offset |-> off2, looked |-> 1,
             result |-> ReturnRange(createRange(heap, l))]
       ELSE [child |-> l, key |-> k2, offset |-> off2, looked |-> 1,
             result |-> IF l # Null /\ IsElement(heap, l) THEN NoResult
                        ELSE ReturnRange(CollapsedRange(k2, off2))]

Return(r) ==
    /\ result' = r
    /\ pc' = "done"

\* createRangefromOp up to its first return, or up to the while loop.
createRangefromOp ==
    /\ pc = "applied"
    /\ UNCHANGED <<nodes, selection, op, applied, opCount, popper>>
    /\ IF op.node = Null
       THEN \* node.getKey() on no node
            /\ Return(ThrowTypeError)
            /\ UNCHANGED <<nextKey, locals>>
       ELSE
         /\ key' = getKey(op.node)
         /\ offset' = op.offset
         /\ IF op.type = OP_INSERT_NODE /\ IsElement(nodes, op.node)
            THEN LET built == createNode(op.value, nextKey)
                 IN /\ nextKey' = built.next
                    /\ created' = built.heap
                    /\ child' = built.root
                    /\ visited' = IF built.root = Null THEN 0 ELSE 1
                    /\ IF built.root = Null
                       THEN Return(ReturnRange(
                                CollapsedRange(getKey(op.node), op.offset)))
                       ELSE IF IsText(built.heap, built.root)
                       THEN Return(ReturnRange(
                                createRange(built.heap, built.root)))
                       ELSE IF IsElement(built.heap, built.root)
                       THEN /\ pc' = "drill"
                            /\ UNCHANGED result
                       ELSE Return(ReturnRange(
                                CollapsedRange(getKey(op.node), op.offset)))
            ELSE
              /\ UNCHANGED <<nextKey, created, child, visited>>
              /\ Return(
                   CASE op.type = OP_UPDATE_FORMAT ->
                          UpdateFormatRange(nodes, op)
                     [] op.type = OP_UPDATE_DATA ->
                          UpdateDataRange(nodes, op)
                     [] op.type = OP_INSERT_TEXT -> InsertTextRange(op)
                     [] op.type = OP_DELETE_TEXT -> DeleteTextRange(op)
                     [] OTHER ->
                          IF op.node = Null
                          THEN ThrowNodeNotFound(getKey(op.node))
                          ELSE ReturnRange(
                                 CollapsedRange(getKey(op.node), op.offset)))

\* One iteration of the while loop of createRangefromOp.
WhileStep ==
    LET body == WhileBody(created, child, key, offset)
    IN /\ pc = "drill"
       /\ child' = body.child
       /\ key' = body.key
       /\ offset' = body.offset
       /\ visited' = visited + body.looked
       /\ IF body.result = NoResult
          THEN UNCHANGED <<pc, result>>
          ELSE Return(body.result)
       /\ UNCHANGED <<nodes, nextKey, selection, op, applied, opCount,
                      created, popper>>

\* The session replaces the Selection by the derived Range when there is
\* one, and is ready for the next operation.
UpdateSelection ==
    /\ pc = "done"
    /\ selection' = IF result.kind = "range" THEN result.range ELSE selection
    /\ op' = NoOp
    /\ applied' = FALSE
    /\ result' = NoResult
    /\ created' = EmptyHeap
    /\ child' = Null
    /\ key' = Null
    /\ offset' = 0
    /\ visited' = 0
    /\ pc' = "idle"
    /\ UNCHANGED <<nodes, nextKey, opCount, popper>>

\* The session submits one operation at a time, when none is in progress.
Ready == pc = "idle" /\ opCount < MaxOps

Next ==
    \/ Ready /\ \E k \in OpKeys, off \in Offsets, s \in Strings :
                  InsertText(k, off, s)
    \/ Ready /\ \E k \in OpKeys, off \in Offsets, n \in 0..MaxLen :
                  DeleteText(k, off, n)
    \/ Ready /\ \E k \in OpKeys, off \in Offsets, v \in Values :
                  InsertNode(k, off, v)
    \/ Ready /\ \E k \in OpKeys, off \in Offsets,
                    c \in Compositions \cup {NoComposition} :
                  UpdateData(k, off, c)
    \/ Ready /\ \E k \in OpKeys, off \in Offsets : UpdateFormat(k, off)
    \/ createRangefromOp
    \/ WhileStep
    \/ UpdateSelection

Spec == Init /\ [][Next]_vars

\* The while loop runs synchronously: once entered it runs to its return.
LiveSpec == Spec /\ WF_vars(WhileStep)

\* ------------------------------------------------------------------ claims
\* createRangefromOp has ended.
Done == pc = "done"

\* The node of the subtree built by createNode that is no node's child.
SubtreeRoot ==
    CHOOSE k \in DOMAIN created :
      \A j \in DOMAIN created :
        \A i \in 1..Len(created[j].children) : created[j].children[i] # k

\* Where following last-child links from k ends: at a Text node or at an
\* Element without children.
RECURSIVE ChainEnd(_, _)
ChainEnd(heap, k) ==
    IF heap[k].kind = "element" /\ heap[k].children # <<>>
    THEN ChainEnd(heap, heap[k].children[Len(heap[k].children)])
    ELSE k

\* The parent of k in heap; Null for a node without one.
ParentOf(heap, k) ==
    IF \E j \in DOMAIN heap :
         \E i \in 1..Len(heap[j].children) : heap[j].children[i] = k
    THEN CHOOSE j \in DOMAIN heap :
           \E i \in 1..Len(heap[j].children) : heap[j].children[i] = k
    ELSE Null

RECURSIVE HeapDepth(_, _)
RECURSIVE HeapDepthAll(_, _)
\* The depth of the subtree of heap under k.
HeapDepth(heap, k) ==
    IF heap[k].children = <<>> THEN 0
    ELSE 1 + HeapDepthAll(heap, heap[k].children)
HeapDepthAll(heap, ks) ==
    IF ks = <<>> THEN 0
    ELSE LET d == HeapDepth(heap, Head(ks))
             r == HeapDepthAll(heap, Tail(ks))
         IN IF d > r THEN d ELSE r

\* An InsertNode on an Element target whose value built a subtree.
InsertedSubtree ==
    /\ Done
    /\ op.type = OP_INSERT_NODE
    /\ IsElement(nodes, op.node)
    /\ DOMAIN created # {}

\* C1: an InsertNode on an Element whose built subtree is a Text node, or
\* whose last-child chain ends at a Text node, yields the collapsed Range at
\* (key of that Text node, length of its text), whatever the depth.
C1_CaretAtEndOfLastLeaf ==
    InsertedSubtree /\ IsText(created, ChainEnd(created, SubtreeRoot)) =>
      LET leaf == ChainEnd(created, SubtreeRoot)
      IN /\ result.kind = "range"
         /\ IsCollapsed(result.range)
         /\ result.range.anchorKey = leaf
         /\ result.range.anchorOffset = Len(created[leaf].text)

C1_Witness ==
    /\ InsertedSubtree
    /\ IsText(created, ChainEnd(created, SubtreeRoot))
    /\ HeapDepth(created, SubtreeRoot) = 2
    /\ result.kind = "range"
    /\ result.range.anchorOffset = MaxLen

\* C2 as claimed: when the last-child chain of the built Element subtree ends
\* at an Element without children, the Range is collapsed at (key of that
\* empty Element, its children count).
C2_RangeAtEmptyElement ==
    InsertedSubtree /\ IsElement(created, ChainEnd(created, SubtreeRoot)) =>
      LET empty == ChainEnd(created, SubtreeRoot)
      IN result =
           ReturnRange(CollapsedRange(empty, Len(created[empty].children)))

\* C2 as the code has it: when the last-child chain of the built Element
\* subtree ends at an Element without children, the Range is collapsed at
\* (key of the parent of that empty Element, the parent's children count);
\* when the built subtree is itself the empty Element, at (key of the target,
\* the operation's offset).
C2_RangeAtParentOfEmptyElement ==
    InsertedSubtree /\ IsElement(created, ChainEnd(created, SubtreeRoot)) =>
      LET empty == ChainEnd(created, SubtreeRoot)
          parent == ParentOf(created, empty)
      IN IF empty = SubtreeRoot
         THEN result = ReturnRange(CollapsedRange(op.key, op.offset))
         ELSE result =
                ReturnRange(
                  CollapsedRange(parent, Len(created[parent].children)))

C2_Witness ==
    /\ InsertedSubtree
    /\ IsElement(created, ChainEnd(created, SubtreeRoot))
    /\ ChainEnd(created, SubtreeRoot) # SubtreeRoot
    /\ result.kind = "range"
    /\ result.range.anchorKey = ParentOf(created, ChainEnd(created, SubtreeRoot))
    /\ result.range.anchorOffset = 2

\* An UpdateData on a Text node without composition has been derived.
UpdateDataNoComposition ==
    /\ Done
    /\ op.type = OP_UPDATE_DATA
    /\ IsText(nodes, op.node)
    /\ ~nodes[op.node].composition.active

\* C3: an UpdateData on a Text node without composition yields no Range,
\* which is neither a Range nor an error, and the Selection stays as it was.
C3_NoRangeNoSelectionChange ==
    /\ [](UpdateDataNoComposition => result.kind = "undefined")
    /\ [][UpdateDataNoComposition => selection' = selection]_vars

C3_Witness ==
    /\ UpdateDataNoComposition
    /\ applied
    /\ result.kind = "undefined"
    /\ selection = CollapsedRange(RootKey, 0)
    /\ op.offset # 0

\* C4: an UpdateData on a Text node with composition {text, offset} yields
\* the collapsed Range at (key, composition.offset + length of
\* composition.text), whatever the operation's offset.
C4_CaretAtEndOfComposition ==
    /\ Done
    /\ op.type = OP_UPDATE_DATA
    /\ IsText(nodes, op.node)
    /\ nodes[op.node].composition.active
    => LET c == nodes[op.node].composition
       IN /\ result.kind = "range"
          /\ IsCollapsed(result.range)
          /\ result.range.anchorKey = op.key
          /\ result.range.anchorOffset = c.offset + Len(c.text)

C4_Witness ==
    /\ Done
    /\ op.type = OP_UPDATE_DATA
    /\ IsText(nodes, op.node)
    /\ nodes[op.node].composition = Composition(<<"a", "a">>, 1)
    /\ op.offset = 2
    /\ result.kind = "range"
    /\ result.range.focusOffset = 3

\* C5: an InsertText on a node yields the collapsed Range at (key of the
\* node, offset + length of the value).
C5_InsertTextCaret ==
    Done /\ op.type = OP_INSERT_TEXT /\ op.node # Null =>
      /\ result.kind = "range"
      /\ IsCollapsed(result.range)
      /\ result.range.anchorKey = op.key
      /\ result.range.anchorOffset = op.offset + Len(op.text)

C5_Witness ==
    /\ Done
    /\ op.type = OP_INSERT_TEXT
    /\ applied
    /\ op.offset = 1
    /\ Len(op.text) = 1
    /\ result.kind = "range"
    /\ result.range.focusOffset = 2

\* C6: a DeleteText of a length within the text left after the offset yields
\* the collapsed Range at (key of the node, offset), whatever the length.
C6_DeleteTextCaret ==
    Done /\ op.type = OP_DELETE_TEXT /\ applied =>
      /\ result.kind = "range"
      /\ IsCollapsed(result.range)
      /\ result.range.anchorKey = op.key
      /\ result.range.anchorOffset = op.offset

C6_Witness ==
    /\ Done
    /\ op.type = OP_DELETE_TEXT
    /\ applied
    /\ op.offset = 1
    /\ op.length = 1
    /\ result.kind = "range"
    /\ result.range.focusOffset = 1

\* C7: an UpdateFormat on a Text node with a text of length L yields the
\* Range from (key, 0) to (key, L), whatever the operation's offset; it is
\* collapsed only when L = 0.
C7_FormatSelectsSpan ==
    Done /\ op.type = OP_UPDATE_FORMAT /\ IsText(nodes, op.node) =>
      /\ result.kind = "range"
      /\ result.range = Range(op.key, 0, op.key, Len(nodes[op.node].text))
      /\ IsCollapsed(result.range) <=> Len(nodes[op.node].text) = 0

C7_Witness ==
    /\ Done
    /\ op.type = OP_UPDATE_FORMAT
    /\ IsText(nodes, op.node)
    /\ Len(nodes[op.node].text) = 2
    /\ op.offset = 1
    /\ result.kind = "range"
    /\ ~IsCollapsed(result.range)

\* C8 as claimed: an InsertNode whose node reference is absent ends in a
\* NodeNotFound error carrying the target's key.
C8_NodeNotFoundReported ==
    Done /\ op.type = OP_INSERT_NODE /\ op.node = Null =>
      result = ThrowNodeNotFound(op.key)

\* An operation on a node of the wrong variant has been derived.
WrongVariant ==
    /\ Done
    /\ \/ op.type = OP_UPDATE_FORMAT /\ IsElement(nodes, op.node)
       \/ op.type = OP_INSERT_NODE /\ IsText(nodes, op.node)

C10_DrillDownTerminates ==
    /\ [](visited <= Depth(op.value) + 1)
    /\ [][pc = "drill" /\ pc' = "drill" =>
            HeapDepth(created', child') < HeapDepth(created, child)]_vars
    /\ (pc = "drill" ~> Done)

C10_Witness ==
    /\ Done
    /\ op.type = OP_INSERT_NODE
    /\ Depth(op.value) = 2
    /\ visited = 3

\* The keys of a Range are keys of nodes of the document tree.
KeysLive(r, tree) ==
    r.anchorKey \in DOMAIN tree /\ r.focusKey \in DOMAIN tree

\* C11 as claimed: when an operation the Executor applied has been derived,
\* every key of the Selection that follows is the key of a node in the
\* document tree; after an InsertNode it is a key of the inserted subtree,
\* not of a detached copy.
C11_SelectionKeysLive ==
    [][Done /\ applied => KeysLive(selection', nodes')]_vars

\* ------------------------------------------------------------ PopperContent
\* The hasParent field of the value a root content gives to
\* PositionContext.Provider, from the hasParent that content read itself.
ProviderHasParent(own) == own

\* usePositionContext().hasParent in content c, with par the nesting of the
\* contents: the default context outside every content, else the context of
\* the content c is rendered in, which is that content's Provider when it is
\* a root and the context that content read otherwise.
RECURSIVE hasParent(_, _)
hasParent(par, c) ==
    IF par[c] = Null THEN FALSE
    ELSE IF ~hasParent(par, par[c])
    THEN ProviderHasParent(hasParent(par, par[c]))
    ELSE hasParent(par, par[c])

isRoot(par, c) == ~hasParent(par, c)

\* Content d is c or is rendered inside c.
RECURSIVE IsWithin(_, _, _)
IsWithin(par, d, c) ==
    d = c \/ (par[d] # Null /\ IsWithin(par, par[d], c))

\* Content c mounts inside content p (the outermost content inside none) and
\* its layout effects run: a content that is no root adds its update function
\* to positionUpdateFns; it is not placed yet, so nothing is scheduled.
MountContent(c, p) ==
    /\ ~mounted[c]
    /\ IF c = RootContent THEN p = Null
       ELSE p \in Contents /\ mounted[p]
    /\ mounted' = [mounted EXCEPT ![c] = TRUE]
    /\ parentContent' = [parentContent EXCEPT ![c] = p]
    /\ isPlaced' = [isPlaced EXCEPT ![c] = FALSE]
    /\ positionUpdateFns' =
         IF ~isRoot(parentContent', c)
         THEN positionUpdateFns \cup {c}
         ELSE positionUpdateFns
    /\ UNCHANGED <<scheduled, editor>>

\* The update function of content c runs, called by useFloating or from an
\* animation frame: a mounted content gets its x and y, and when that makes
\* a root content placed its effect gives every function of
\* positionUpdateFns to requestAnimationFrame.
update(c) ==
    /\ mounted[c] \/ c \in scheduled
    /\ isPlaced' = IF mounted[c] THEN [isPlaced EXCEPT ![c] = TRUE]
                   ELSE isPlaced
    /\ scheduled' =
         IF mounted[c] /\ ~isPlaced[c] /\ isRoot(parentContent, c)
         THEN (scheduled \ {c}) \cup positionUpdateFns
         ELSE scheduled \ {c}
    /\ UNCHANGED <<mounted, parentContent, positionUpdateFns, editor>>

\* Content c unmounts, with the contents rendered inside it: the cleanup of
\* a content that is no root deletes its update function.
UnmountContent(c) ==
    LET gone == {d \in Contents :
                   mounted[d] /\ IsWithin(parentContent, d, c)}
    IN /\ mounted[c]
       /\ mounted' = [d \in Contents |-> mounted[d] /\ d \notin gone]
       /\ parentContent' =
            [d \in Contents |-> IF d \in gone THEN Null ELSE parentContent[d]]
       /\ isPlaced' = [d \in Contents |-> isPlaced[d] /\ d \notin gone]
       /\ positionUpdateFns' =
            positionUpdateFns \ {d \in gone : ~isRoot(parentContent, d)}
       /\ UNCHANGED <<scheduled, editor>>

PopperNext ==
    \/ \E c \in Contents, p \in Contents \cup {Null} : MountContent(c, p)
    \/ \E c \in Contents : update(c)
    \/ \E c \in Contents : UnmountContent(c)

PopperSpec == Init /\ [][PopperNext]_vars

\* The contents nested inside another content.
Nested(par) == {c \in Contents : par[c] # Null}

\* C12 as claimed: the update function of every nested content is in
\* positionUpdateFns exactly while the content is mounted, and when the
\* outermost content becomes placed the update function of every mounted
\* nested content is scheduled.
C12_NestedContentsRepositioned ==
    [][/\ \A c \in Contents \ {RootContent} :
            mounted'[c] <=> c \in positionUpdateFns'
       /\ ~isPlaced[RootContent] /\ isPlaced'[RootContent] =>
            \A c \in Nested(parentContent') :
              mounted'[c] => c \in scheduled']_vars
====
